---- MODULE Spec2Model ----
(***************************************************************************)
(* Model of the Yandex Cloud Monitoring output plugin                      *)
(* (plugins/outputs/yandex_cloud_monitoring/yandex_cloud_monitoring.go).   *)
(*                                                                         *)
(* The state is the YandexCloudMonitoring struct, a clock, the record of   *)
(* what the operation that returned last did (its inputs, the requests it  *)
(* issued, the value it returned) and a short history of the credential.   *)
(* The environment (the metadata service, the monitoring endpoint, the     *)
(* passing of time, the host agent that calls Init/Connect/Write/Close) is *)
(* nondeterministic.                                                       *)
(*                                                                         *)
(* Time is counted in whole seconds.  The zero time.Time is 0; the clock   *)
(* starts at 1.  expires_in is drawn from a small range, in which the      *)
(* int64 nanosecond product of line 221 does not wrap.                     *)
(* The Log field is taken to be set by the host agent, as it is before any *)
(* plugin method is called.                                                *)
(***************************************************************************)
EXTENDS Integers, Sequences, FiniteSets

VARIABLES
    Timeout,                 \* a.Timeout, in seconds
    Endpoint,                \* a.Endpoint
    Service,                 \* a.Service
    metadataTokenURL,        \* a.metadataTokenURL
    metadataFolderURL,       \* a.metadataFolderURL
    folderID,                \* a.folderID
    iamToken,                \* a.iamToken
    iamTokenExpirationTime,  \* a.iamTokenExpirationTime
    client,                  \* a.client # nil
    now,                     \* the clock read by time.Now()
    panicked,                \* a nil dereference ended the process
    last,                    \* what the last operation did
    hist,                    \* the last successful and the last attempted refresh
    nConnect,                \* Connect invocations so far
    nFolderCalls             \* GETs of metadataFolderURL so far

vars == <<Timeout, Endpoint, Service, metadataTokenURL, metadataFolderURL,
          folderID, iamToken, iamTokenExpirationTime, client, now, panicked,
          last, hist, nConnect, nFolderCalls>>

config == <<Timeout, Endpoint, Service, metadataTokenURL, metadataFolderURL>>
credential == <<iamToken, iamTokenExpirationTime>>

----------------------------------------------------------------------------
(* Bounds of the model. *)

\* The clock runs from 1 to MaxTime.
MaxTime == 4
\* expires_in of a token response ranges over -1 .. MaxExpiresIn.
MaxExpiresIn == 2
\* A metadata call takes 0 .. MaxDelay seconds.
MaxDelay == 1
\* At most MaxConnects Connect invocations are explored.
MaxConnects == 2

----------------------------------------------------------------------------
(* Program constants. *)

defaultRequestTimeout == 20
defaultEndpoint == "https://monitoring.api.cloud.yandex.net/monitoring/v2/data/write"
defaultMetadataTokenURL ==
    "http://169.254.169.254/computeMetadata/v1/instance/service-accounts/default/token"
defaultMetadataFolderURL ==
    "http://169.254.169.254/computeMetadata/v1/instance/vendor/folder-id"
defaultService == "custom"

\* The zero value of time.Time.
ZeroTime == 0

----------------------------------------------------------------------------
(* The environment's values. *)

\* An endpoint that url.Parse rejects ("missing protocol scheme").
BadURL == ":"

\* http.NewRequest fails exactly when the URL does not parse.
ParsesAsURL(u) == u # BadURL

FolderIds == {"", "f1", "f2"}
Tokens == {"", "t1", "t2"}
ExpiresIns == (-1) .. MaxExpiresIn
Delays == 0 .. MaxDelay

\* A status code is 2xx.
StatusOK(s) == ~(s < 200 \/ s > 299)

\* What an HTTP round trip yields: no response (transport error), a response
\* whose body cannot be read, or a response with a status and a body.
TransportError(b) == [kind |-> "transport_error", status |-> 0, body |-> b]
ReadError(s, b) == [kind |-> "read_error", status |-> s, body |-> b]
Response(s, b) == [kind |-> "response", status |-> s, body |-> b]

\* The body of a token response: bytes that json.Unmarshal rejects, or a JSON
\* object; a member that is absent unmarshals to the zero value.
NotJSON == [json |-> FALSE, access_token |-> "", expires_in |-> 0]
TokenJSON(t, e) == [json |-> TRUE, access_token |-> t, expires_in |-> e]

\* The answers of the metadata service to the token request.
TokenResponses ==
    {TransportError(NotJSON), ReadError(200, NotJSON),
     Response(300, TokenJSON("t1", 1)), Response(200, NotJSON),
     Response(200, TokenJSON("", 1)), Response(299, TokenJSON("t2", 1))}
    \cup {Response(200, TokenJSON("t1", e)) : e \in ExpiresIns}
    \cup {Response(200, TokenJSON("t2", MaxExpiresIn))}

\* A few of them.
SomeTokenResponses ==
    {TransportError(NotJSON), Response(200, TokenJSON("t1", MaxExpiresIn))}

\* The answers of the metadata service to the folder-id request.
FolderResponses ==
    {TransportError(""), ReadError(200, "f1"), Response(404, "f1"),
     Response(300, "f2"), Response(299, "f2")}
    \cup {Response(200, f) : f \in FolderIds}

\* A few of them.
SomeFolderResponses == {TransportError(""), Response(200, "f1")}

\* The answers of the monitoring endpoint to the POST.
PostResponses ==
    {TransportError(""), ReadError(200, ""), Response(101, ""),
     Response(200, "x"), Response(299, ""), Response(401, "x")}

\* A few of them.
SomePostResponses == {Response(200, ""), Response(401, "x")}

----------------------------------------------------------------------------
(* The host agent's metrics (telegraf.Metric), as Write reads them. *)

\* Field values: a float64, an int64, a string that is no number, and the
\* float64 NaN.
Float(n) == [kind |-> "float64", v |-> n]
Int64(n) == [kind |-> "int64", v |-> n]
Str(n) == [kind |-> "string", v |-> n]
NaN == [kind |-> "NaN", v |-> 0]

Field(k, val) == [Key |-> k, Value |-> val]
Metric(n, tags, fields, t) == [name |-> n, tags |-> tags, fields |-> fields, time |-> t]

\* A time.Time of the host metric: seconds, nanoseconds, zone offset.
Instant(s, ns, z) == [sec |-> s, nsec |-> ns, zone |-> z]

\* internal.ToFloat64: the numeric coercion helper.  A number converts to
\* its float64 value, a non-numeric value is an error.
ToFloat64(val) ==
    IF val.kind \in {"float64", "int64"} THEN [ok |-> TRUE, f |-> val.v, nan |-> FALSE]
    ELSE IF val.kind = "NaN" THEN [ok |-> TRUE, f |-> 0, nan |-> TRUE]
    ELSE [ok |-> FALSE, f |-> 0, nan |-> FALSE]

\* Time.Format(time.RFC3339): seconds and zone offset, no fraction.
FormatRFC3339(t) == [sec |-> t.sec, zone |-> t.zone]

\* A mutant of replaceReservedTagNames: the reserved key is not renamed.
replaceReservedTagNamesKeepsName(tagNames, nameFirst) == tagNames

\* replaceReservedTagNames.  Go ranges over a map in an unspecified order:
\* nameFirst says whether the key "name" is visited before the key "_name"
\* (the later write to newTags["_name"] wins).
replaceReservedTagNames(tagNames, nameFirst) ==
    LET hasName == "name" \in DOMAIN tagNames
        keys == (DOMAIN tagNames \ {"name"}) \cup (IF hasName THEN {"_name"} ELSE {})
    IN [k \in keys |->
          IF k = "_name" /\ hasName /\ ("_name" \notin DOMAIN tagNames \/ ~nameFirst)
          THEN tagNames["name"]
          ELSE tagNames[k]]

\* The yandexCloudMonitoringMetric appended for one field (lines 141-149).
MetricPoint(m, field, value, nameFirst) ==
    [Name |-> m.name \o "_" \o field.Key,
     Labels |-> replaceReservedTagNames(m.tags, nameFirst),
     TS |-> FormatRFC3339(m.time),
     Value |-> value.f,
     IsNaN |-> value.nan]

RECURSIVE TranslateFields(_, _, _, _)
RECURSIVE SkipField(_, _, _, _)

\* A mutant of SkipField: the field that cannot be coerced ends the loop over
\* the metric's fields, as a break instead of the continue would.
SkipFieldBreaks(m, i, acc, ord) ==
    [points |-> acc.points, skipped |-> acc.skipped + 1]

\* Lines 136-139: log the error and continue with the next field.
SkipField(m, i, acc, ord) ==
    TranslateFields(m, i + 1, [points |-> acc.points, skipped |-> acc.skipped + 1], ord)

\* The inner loop of Write (lines 134-150) from field i on.  ord[k] is the
\* map iteration order met when the k-th point is built.
TranslateFields(m, i, acc, ord) ==
    IF i > Len(m.fields) THEN acc
    ELSE LET field == m.fields[i]
             value == ToFloat64(field.Value)
         IN IF ~value.ok
            THEN SkipField(m, i, acc, ord)
            ELSE TranslateFields(m, i + 1,
                     [points |-> Append(acc.points,
                                   MetricPoint(m, field, value, ord[Len(acc.points) + 1])),
                      skipped |-> acc.skipped],
                     ord)

RECURSIVE TranslateMetrics(_, _, _, _)
\* The outer loop of Write (lines 132-151) from metric j on.
TranslateMetrics(metrics, j, acc, ord) ==
    IF j > Len(metrics) THEN acc
    ELSE TranslateMetrics(metrics, j + 1, TranslateFields(metrics[j], 1, acc, ord), ord)

\* The slice Write builds and the number of fields it skipped.
Translate(metrics, ord) ==
    TranslateMetrics(metrics, 1, [points |-> <<>>, skipped |-> 0], ord)

RECURSIVE NumFields(_)
NumFields(metrics) ==
    IF metrics = <<>> THEN 0
    ELSE Len(Head(metrics).fields) + NumFields(Tail(metrics))

\* The map iteration orders that Write can meet while it translates metrics:
\* they differ only for a tag set that holds both "name" and "_name".
Orders(metrics) ==
    LET n == NumFields(metrics)
    IN IF \E j \in 1 .. Len(metrics) : {"name", "_name"} \subseteq DOMAIN metrics[j].tags
       THEN [1 .. n -> BOOLEAN]
       ELSE {[k \in 1 .. n |-> TRUE]}

\* json.Marshal of the message (lines 153-160): a NaN value is an
\* UnsupportedValueError; a nil slice marshals to null, not to [].
Marshal(points) ==
    IF \E k \in 1 .. Len(points) : points[k].IsNaN
    THEN [err |-> "marshal", metricsNull |-> FALSE, metrics |-> <<>>]
    ELSE [err |-> "nil", metricsNull |-> points = <<>>, metrics |-> points]

----------------------------------------------------------------------------
(* HTTP requests and the calls that issue them. *)

NoBody == [err |-> "nil", metricsNull |-> FALSE, metrics |-> <<>>]

\* The GET that getResponseFromMetadata builds (lines 166-170).
Get(url) ==
    [method |-> "GET", url |-> url, flavor |-> "Google", folderId |-> "",
     service |-> "", bearer |-> "", hasBody |-> FALSE, body |-> NoBody]

\* The POST that send builds (lines 205-214, 224).
Post(url, folder, service, token, body) ==
    [method |-> "POST", url |-> url, flavor |-> "", folderId |-> folder,
     service |-> service, bearer |-> token, hasBody |-> TRUE, body |-> body]

\* The responses that stand for "no call was made".
NoTokenResponse == [kind |-> "none", status |-> 0, body |-> NotJSON]
NoPostResponse == [kind |-> "none", status |-> 0, body |-> ""]
NoFolderResponse == [kind |-> "none", status |-> 0, body |-> ""]

\* A mutant of ClientDo: a request that got no 2xx answer is sent again.
ClientDoRetries(c, req, resp) ==
    IF ~c THEN [panic |-> TRUE, reqs |-> <<>>]
    ELSE IF resp.kind = "response" /\ StatusOK(resp.status)
         THEN [panic |-> FALSE, reqs |-> <<req>>]
         ELSE [panic |-> FALSE, reqs |-> <<req, req>>]

\* c.Do(req): a nil *http.Client panics before anything is sent; otherwise
\* the request goes out once.
ClientDo(c, req, resp) ==
    IF ~c THEN [panic |-> TRUE, reqs |-> <<>>]
    ELSE [panic |-> FALSE, reqs |-> <<req>>]

\* Lines 172-185: what getResponseFromMetadata makes of the round trip do.
MetadataResult(do, resp) ==
    IF do.panic
    THEN [panic |-> TRUE, err |-> "panic", status |-> 0, reqs |-> do.reqs]
    ELSE IF resp.kind = "transport_error"
    THEN [panic |-> FALSE, err |-> "transport", status |-> 0, reqs |-> do.reqs]
    ELSE IF resp.kind = "read_error"
    THEN [panic |-> FALSE, err |-> "read", status |-> 0, reqs |-> do.reqs]
    ELSE IF resp.status >= 300 \/ resp.status < 200
    THEN [panic |-> FALSE, err |-> "status", status |-> resp.status, reqs |-> do.reqs]
    ELSE [panic |-> FALSE, err |-> "nil", status |-> 0, reqs |-> do.reqs,
          body |-> resp.body]

\* getResponseFromMetadata (lines 165-186).
getResponseFromMetadata(c, metadataURL, resp) ==
    IF ~ParsesAsURL(metadataURL)
    THEN [panic |-> FALSE, err |-> "NewRequest", status |-> 0, reqs |-> <<>>]
    ELSE MetadataResult(ClientDo(c, Get(metadataURL), resp), resp)

\* json.Unmarshal(body, &metadata) (lines 194-197).
Unmarshal(body) ==
    IF ~body.json THEN [err |-> TRUE, AccessToken |-> "", ExpiresIn |-> 0]
    ELSE [err |-> FALSE, AccessToken |-> body.access_token,
          ExpiresIn |-> body.expires_in]

\* A mutant of CredentialsMissing: only the token is looked at.
CredentialsMissingTokenOnly(metadata) == metadata.AccessToken = ""

\* Line 198.
CredentialsMissing(metadata) ==
    metadata.AccessToken = "" \/ metadata.ExpiresIn = 0

\* A mutant of IAMTokenURL: the folder URL is fetched for the token.
IAMTokenURLIsFolderURL(tokenURL, folderURL) == folderURL

\* The URL that getIAMTokenFromMetadata fetches (line 190).
IAMTokenURL(tokenURL, folderURL) == tokenURL

NoToken(r, e, st) ==
    [panic |-> r.panic, err |-> e, status |-> st, reqs |-> r.reqs,
     token |-> "", expiresIn |-> 0]

\* Lines 194-201: what getIAMTokenFromMetadata makes of the unmarshalled body.
TokenResult(r, metadata) ==
    IF metadata.err THEN NoToken(r, "unmarshal", 0)
    ELSE IF CredentialsMissing(metadata) THEN NoToken(r, "credentials", 0)
    ELSE [panic |-> FALSE, err |-> "nil", status |-> 0, reqs |-> r.reqs,
          token |-> metadata.AccessToken, expiresIn |-> metadata.ExpiresIn]

\* Lines 190-193: the error of the fetch is returned as it is.
TokenFromMetadata(r) ==
    IF r.panic \/ r.err # "nil" THEN NoToken(r, r.err, r.status)
    ELSE TokenResult(r, Unmarshal(r.body))

\* getIAMTokenFromMetadata (lines 188-202).
getIAMTokenFromMetadata(resp) ==
    TokenFromMetadata(
        getResponseFromMetadata(client,
            IAMTokenURL(metadataTokenURL, metadataFolderURL), resp))

----------------------------------------------------------------------------
(* send and the credential it caches. *)

\* A mutant of Before: the comparison is the wrong way round.
BeforeReversed(t, u) == u < t

\* time.Time.Before: t is strictly earlier than u.
Before(t, u) == t < u

\* Time.Add(time.Duration(expiresIn) * time.Second), in seconds.
TimeAdd(t, expiresIn) == t + expiresIn

\* Lines 215-216: isTokenExpired, and the condition of the refresh.
NeedsRefresh(token, expirationTime, t) ==
    token = "" \/ Before(expirationTime, t)

\* A mutant of RefreshFailed: the error of the refresh is not looked at.
RefreshFailedIgnored(t) == FALSE

\* Line 218.
RefreshFailed(t) == t.err # "nil"

\* A mutant of DeliveryFailed: 299 is taken for a failure.
DeliveryFailedAt299(readError, status) ==
    readError \/ status < 200 \/ status >= 299

\* Line 233.
DeliveryFailed(readError, status) ==
    readError \/ status < 200 \/ status > 299

\* Lines 226-237: what send returns for the round trip do of the POST.
Delivered(do, postResp) ==
    IF do.panic
    THEN [panic |-> TRUE, ret |-> "panic", errStatus |-> 0, reqs |-> do.reqs]
    ELSE IF postResp.kind = "transport_error"
    THEN [panic |-> FALSE, ret |-> "transport", errStatus |-> 0, reqs |-> do.reqs]
    ELSE IF DeliveryFailed(postResp.kind = "read_error", postResp.status)
    THEN [panic |-> FALSE, ret |-> "write_batch", errStatus |-> postResp.status,
          reqs |-> do.reqs]
    ELSE [panic |-> FALSE, ret |-> "nil", errStatus |-> 0, reqs |-> do.reqs]

\* Lines 224-237: the POST with the bearer token.
deliver(token, body, postResp) ==
    Delivered(ClientDo(client, Post(Endpoint, folderID, Service, token, body), postResp),
              postResp)

\* A mutant of SendResult: a POST that failed makes send drop the token.
SendResultInvalidates(p, reqs, token, expirationTime, checked, refresh, elapsed) ==
    [panic |-> p.panic, ret |-> p.ret, errStatus |-> p.errStatus,
     reqs |-> reqs \o p.reqs,
     token |-> IF p.ret \in {"transport", "write_batch"} /\ p.reqs # <<>>
               THEN "" ELSE token,
     expirationTime |-> expirationTime,
     checked |-> checked, refresh |-> refresh, elapsed |-> elapsed]

\* What send leaves behind: the value it returns, the requests it issued and
\* the credential it caches.
SendResult(p, reqs, token, expirationTime, checked, refresh, elapsed) ==
    [panic |-> p.panic, ret |-> p.ret, errStatus |-> p.errStatus,
     reqs |-> reqs \o p.reqs, token |-> token, expirationTime |-> expirationTime,
     checked |-> checked, refresh |-> refresh, elapsed |-> elapsed]

Returns(e, st) == [panic |-> e = "panic", ret |-> e, errStatus |-> st, reqs |-> <<>>]

\* A mutant of Refreshed: the new token is stored and the expiry is left as
\* it was.
RefreshedKeepsExpiry(t, body, d, postResp) ==
    IF t.panic
    THEN SendResult(Returns("panic", 0), t.reqs, iamToken, iamTokenExpirationTime,
                    TRUE, "panic", 0)
    ELSE IF RefreshFailed(t)
    THEN SendResult(Returns(t.err, t.status), t.reqs, iamToken,
                    iamTokenExpirationTime, TRUE, t.err, d)
    ELSE SendResult(deliver(t.token, body, postResp), t.reqs, t.token,
                    iamTokenExpirationTime, TRUE, t.err, d)

\* Lines 217-224: send once getIAMTokenFromMetadata has returned t, having
\* taken d seconds.
Refreshed(t, body, d, postResp) ==
    IF t.panic
    THEN SendResult(Returns("panic", 0), t.reqs, iamToken, iamTokenExpirationTime,
                    TRUE, "panic", 0)
    ELSE IF RefreshFailed(t)
    THEN SendResult(Returns(t.err, t.status), t.reqs, iamToken,
                    iamTokenExpirationTime, TRUE, t.err, d)
    ELSE SendResult(deliver(t.token, body, postResp), t.reqs, t.token,
                    TimeAdd(now + d, t.expiresIn), TRUE, t.err, d)

\* send (lines 204-238), the metadata call taking d seconds.
send(body, tokResp, d, postResp) ==
    IF ~ParsesAsURL(Endpoint)
    THEN SendResult(Returns("NewRequest", 0), <<>>, iamToken,
                    iamTokenExpirationTime, FALSE, "none", 0)
    ELSE IF NeedsRefresh(iamToken, iamTokenExpirationTime, now)
    THEN Refreshed(getIAMTokenFromMetadata(tokResp), body, d, postResp)
    ELSE SendResult(deliver(iamToken, body, postResp), <<>>, iamToken,
                    iamTokenExpirationTime, TRUE, "none", 0)

\* The requests of reqs with the given method and URL.
Calls(reqs, method, url) ==
    Cardinality({k \in 1 .. Len(reqs) : reqs[k].method = method /\ reqs[k].url = url})

\* The POSTs among reqs.
Posts(reqs) == {k \in 1 .. Len(reqs) : reqs[k].method = "POST"}

----------------------------------------------------------------------------
(* The state after construction and the plugin's operations. *)

\* The settings the configuration file may give; "" and 0 are "not set".
ConfigTimeouts == {-1, 0, 5}
ConfigEndpoints == {"", BadURL, "http://ep"}
ConfigServices == {"", "svc"}

Tags1 == [host |-> "vm1", name |-> "core0"]
Tags2 == [host |-> "vm2"]

Cpu ==
    Metric("cpu", Tags1,
           <<Field("usage_idle", Float(99)), Field("note", Str(1)),
             Field("usage_user", Int64(5))>>,
           Instant(50, 7, 0))
Disk == Metric("disk", Tags2, <<Field("label", Str(2))>>, Instant(51, 0, 3))
Mem == Metric("mem", Tags2, <<Field("free", NaN)>>, Instant(52, 0, 0))

\* A tag set that holds both the reserved key "name" and the key "_name".
Tags3 ==
    [k \in {"host", "name", "_name"} |->
       IF k = "host" THEN "vm3" ELSE IF k = "name" THEN "a.service" ELSE "shadow"]

Unit == Metric("systemd", Tags3, <<Field("load_code", Int64(0))>>, Instant(53, 0, 0))

\* The batches the host agent hands to Write.
Batches ==
    {<<>>, <<Cpu>>, <<Disk>>, <<Disk, Cpu>>, <<Cpu, Disk>>, <<Mem>>, <<Cpu, Mem>>,
     <<Unit, Cpu>>}

\* A few of them.
SomeBatches == {<<Disk, Cpu>>, <<Mem>>}

\* The history of the credential: whether a refresh has succeeded, when the
\* last one set the credential, the expires_in and the token it got,
\* whether the last publish that asked for a token had its token response
\* rejected for an empty access_token or a zero expires_in, and whether the
\* last publish that got as far as the validity check issued a POST that
\* failed.
NoHistory ==
    [done |-> FALSE, setAt |-> 0, expiresIn |-> 0, token |-> "", rejected |-> FALSE,
     postFailed |-> FALSE]

\* An answer to the token request that has a 2xx status and a JSON body with
\* an empty access_token or a zero expires_in.
Malformed(resp) ==
    /\ resp.kind = "response"
    /\ StatusOK(resp.status)
    /\ resp.body.json
    /\ (resp.body.access_token = "" \/ resp.body.expires_in = 0)

\* The record of an operation that has not read or done anything.
Did(op) ==
    [op |-> op, ret |-> "nil", errStatus |-> 0, reqs |-> <<>>,
     folderResp |-> NoFolderResponse, tokResp |-> NoTokenResponse,
     postResp |-> NoPostResponse, metrics |-> <<>>, points |-> <<>>,
     skipped |-> 0, checked |-> FALSE, checkTime |-> 0, setTime |-> 0,
     refresh |-> "none", tokBefore |-> iamToken,
     expBefore |-> iamTokenExpirationTime,
     folderBefore |-> "", histBefore |-> NoHistory, configBefore |-> config]

\* outputs.Add's factory (lines 240-244) and the configuration loader: the
\* exported settings come from the configuration, all else is zero.
New(timeouts, endpoints, services) ==
    /\ Timeout \in timeouts
    /\ Endpoint \in endpoints
    /\ Service \in services
    /\ metadataTokenURL = ""
    /\ metadataFolderURL = ""
    /\ folderID = ""
    /\ iamToken = ""
    /\ iamTokenExpirationTime = ZeroTime
    /\ client = FALSE
    /\ now = 1
    /\ panicked = FALSE
    /\ last = Did("none")
    /\ hist = NoHistory
    /\ nConnect = 0
    /\ nFolderCalls = 0

\* A mutant of ResolveTimeout: the default replaces a configured timeout.
ResolveTimeoutAlways(t) == defaultRequestTimeout

\* Lines 80-82.
ResolveTimeout(t) == IF t <= 0 THEN defaultRequestTimeout ELSE t

\* Init (lines 79-105).
Init ==
    /\ ~panicked
    /\ Timeout' = ResolveTimeout(Timeout)
    /\ Endpoint' = IF Endpoint = "" THEN defaultEndpoint ELSE Endpoint
    /\ Service' = IF Service = "" THEN defaultService ELSE Service
    /\ metadataTokenURL' =
           IF metadataTokenURL = "" THEN defaultMetadataTokenURL ELSE metadataTokenURL
    /\ metadataFolderURL' =
           IF metadataFolderURL = "" THEN defaultMetadataFolderURL ELSE metadataFolderURL
    /\ client' = TRUE
    /\ last' = Did("Init")
    /\ UNCHANGED <<folderID, credential, now, panicked, hist, nConnect, nFolderCalls>>

\* A mutant of ConnectReturns: an empty folder id returns the error of the
\* fetch, which is nil.
ConnectReturnsFetchError(r) == r.err

\* Lines 111-121: the error Connect returns once getResponseFromMetadata has
\* returned r.  fmt.Errorf with a nil %w operand is still an error.
ConnectReturns(r) ==
    IF r.err # "nil" THEN r.err
    ELSE IF r.body = "" THEN "empty_folder_id"
    ELSE "nil"

\* Lines 111-121: Connect once getResponseFromMetadata has returned r.
Connected(r, resp) ==
    /\ folderID' = IF ~r.panic /\ r.err = "nil" THEN r.body ELSE folderID
    /\ panicked' = r.panic
    /\ last' = [Did("Connect") EXCEPT
                  !.ret = ConnectReturns(r),
                  !.errStatus = r.status,
                  !.reqs = r.reqs,
                  !.folderBefore = folderID,
                  !.folderResp = IF r.reqs # <<>> THEN resp ELSE NoFolderResponse]
    /\ nConnect' = nConnect + 1
    /\ nFolderCalls' = nFolderCalls + Calls(r.reqs, "GET", metadataFolderURL)

\* Connect (lines 108-122).
Connect(folderResponses) ==
    /\ ~panicked
    /\ nConnect < MaxConnects
    /\ \E resp \in folderResponses :
         Connected(getResponseFromMetadata(client, metadataFolderURL, resp), resp)
    /\ UNCHANGED <<config, credential, client, now, hist>>

\* Close (lines 125-128).
Close ==
    /\ ~panicked
    /\ client' = FALSE
    /\ last' = Did("Close")
    /\ UNCHANGED <<config, folderID, credential, now, panicked, hist, nConnect,
                   nFolderCalls>>

\* The record of a Write that translated metrics into tr.
Wrote(metrics, tr) ==
    [Did("Write") EXCEPT !.metrics = metrics, !.points = tr.points,
                         !.skipped = tr.skipped, !.tokBefore = iamToken,
                         !.expBefore = iamTokenExpirationTime,
                         !.histBefore = hist]

\* Lines 158-160: json.Marshal failed, Write returns its error.
MarshalFailed(metrics, tr, body) ==
    /\ last' = [Wrote(metrics, tr) EXCEPT !.ret = body.err]
    /\ UNCHANGED <<credential, now, panicked, hist, nFolderCalls>>

\* The send that returned s issued a POST and returned an error for it.
PostFailed(s) == Posts(s.reqs) # {} /\ s.ret \in {"transport", "write_batch"}

\* Line 162: Write returns what send returned, s.
Sent(metrics, tr, s, tokResp, d, postResp) ==
    /\ iamToken' = s.token
    /\ iamTokenExpirationTime' = s.expirationTime
    /\ now' = now + s.elapsed
    /\ panicked' = s.panic
    /\ hist' =
         IF ~s.checked THEN hist
         ELSE IF s.refresh = "nil"
         THEN [done |-> TRUE, setAt |-> now + d,
               expiresIn |-> tokResp.body.expires_in, token |-> s.token,
               rejected |-> FALSE, postFailed |-> PostFailed(s)]
         ELSE [hist EXCEPT !.rejected =
                 s.refresh \notin {"none", "panic"} /\ Malformed(tokResp),
                           !.postFailed = PostFailed(s)]
    /\ nFolderCalls' = nFolderCalls + Calls(s.reqs, "GET", metadataFolderURL)
    /\ last' = [Wrote(metrics, tr) EXCEPT
                  !.ret = s.ret, !.errStatus = s.errStatus, !.reqs = s.reqs,
                  !.checked = s.checked,
                  !.checkTime = IF s.checked THEN now ELSE 0,
                  !.setTime = IF s.refresh = "nil" THEN now + d ELSE 0,
                  !.refresh = s.refresh,
                  !.tokResp = IF s.refresh \in {"none", "panic"} THEN NoTokenResponse
                              ELSE tokResp,
                  !.postResp = IF Posts(s.reqs) = {} THEN NoPostResponse
                               ELSE postResp]

\* send gets as far as client.Do (line 226) when the endpoint parses, the
\* client is there and the refresh, if there is one, returns a token; only
\* then is there an answer to the POST to choose.
ReachesPost(refreshes, tokResp) ==
    /\ ParsesAsURL(Endpoint)
    /\ client
    /\ refreshes => ~RefreshFailed(getIAMTokenFromMetadata(tokResp))

\* Lines 153-162 for the translated metrics tr and their serialization body.
Marshalled(metrics, tr, body, tokenResponses, postResponses) ==
    IF body.err # "nil" THEN MarshalFailed(metrics, tr, body)
    ELSE LET asks == ParsesAsURL(Endpoint)
             refreshes == asks /\ NeedsRefresh(iamToken, iamTokenExpirationTime, now)
         IN \E tokResp \in (IF refreshes THEN tokenResponses ELSE {NoTokenResponse}) :
            \E d \in (IF refreshes THEN {x \in Delays : now + x <= MaxTime} ELSE {0}) :
            \E postResp \in (IF ReachesPost(refreshes, tokResp) THEN postResponses
                              ELSE {NoPostResponse}) :
              Sent(metrics, tr, send(body, tokResp, d, postResp), tokResp, d, postResp)

\* Write (lines 131-163) with send (lines 204-238).
Write(batches, tokenResponses, postResponses) ==
    /\ ~panicked
    /\ \E metrics \in batches :
       \E ord \in Orders(metrics) :
       \E tr \in {Translate(metrics, ord)} :
         Marshalled(metrics, tr, Marshal(tr.points), tokenResponses, postResponses)
    /\ UNCHANGED <<config, folderID, client, nConnect>>

\* Time passes between two operations.
Tick ==
    /\ ~panicked
    /\ now < MaxTime
    /\ now' = now + 1
    /\ UNCHANGED <<config, folderID, credential, client, panicked, last, hist,
                   nConnect, nFolderCalls>>

\* The credential and the delivery: every answer to the token request and to
\* the POST, a few batches and one answer to the folder-id request.
Next ==
    \/ Init
    \/ Connect({Response(200, "f1")})
    \/ Close
    \/ Write(SomeBatches, TokenResponses, PostResponses)
    \/ Tick

Spec == New({0}, {"", BadURL}, {""}) /\ [][Next]_vars

\* The folder identifier: every answer to the folder-id request, a few
\* batches and a few answers to the token request and to the POST.
NextConnect ==
    \/ Init
    \/ Connect(FolderResponses)
    \/ Close
    \/ Write(SomeBatches, SomeTokenResponses, SomePostResponses)
    \/ Tick

SpecConnect == New({0}, {""}, {"", "svc"}) /\ [][NextConnect]_vars

\* The translation: every batch, a few answers to the requests.
NextTranslate ==
    \/ Init
    \/ Connect(SomeFolderResponses)
    \/ Close
    \/ Write(Batches, SomeTokenResponses, SomePostResponses)
    \/ Tick

SpecTranslate == New({0}, {""}, {""}) /\ [][NextTranslate]_vars

\* The configuration: every setting of the configuration file, one batch and
\* a few answers to the requests.
NextInit ==
    \/ Init
    \/ Connect({Response(200, "f1")})
    \/ Close
    \/ Write({<<Disk, Cpu>>}, SomeTokenResponses, {Response(200, "")})
    \/ Tick

SpecInit == New(ConfigTimeouts, ConfigEndpoints, ConfigServices) /\ [][NextInit]_vars

----------------------------------------------------------------------------
(* What the last operation did, as the claims read it. *)

\* The GETs of the metadata token URL, the GETs of the metadata folder URL
\* and the POSTs that the last operation issued.
TokenCalls == Calls(last.reqs, "GET", metadataTokenURL)
FolderCalls == Calls(last.reqs, "GET", metadataFolderURL)
PostCalls == Cardinality(Posts(last.reqs))

\* The last operation was a Write that got as far as the validity check of
\* line 215, and returned.
Published == last.op = "Write" /\ last.checked /\ last.ret # "panic"

\* Every POST of the last operation carried this bearer token.
BearerIs(token) == \A k \in Posts(last.reqs) : last.reqs[k].bearer = token

\* The token request comes before the POST.
TokenCallFirst ==
    \A k \in Posts(last.reqs) :
        \E j \in 1 .. (k - 1) :
            last.reqs[j].method = "GET" /\ last.reqs[j].url = metadataTokenURL

\* The error that a failing answer to the token request makes
\* getIAMTokenFromMetadata return, "nil" for an answer it accepts.
TokenError(resp) ==
    IF resp.kind = "transport_error" THEN "transport"
    ELSE IF resp.kind = "read_error" THEN "read"
    ELSE IF ~StatusOK(resp.status) THEN "status"
    ELSE IF ~resp.body.json THEN "unmarshal"
    ELSE IF resp.body.access_token = "" \/ resp.body.expires_in = 0 THEN "credentials"
    ELSE "nil"

----------------------------------------------------------------------------
(* The claims. *)

\* C1: after a successful refresh that set the credential at time T with
\* expires_in = E, a publish whose validity check happens at a time in
\* [T, T+E) issues no call to the metadata token URL, leaves the credential
\* as it is and sends the token of that refresh, whatever the earlier POSTs
\* returned.
C1_CachedTokenReused ==
    (/\ Published
     /\ last.histBefore.done
     /\ last.histBefore.setAt <= last.checkTime
     /\ last.checkTime < last.histBefore.setAt + last.histBefore.expiresIn)
    => (/\ TokenCalls = 0
        /\ last.refresh = "none"
        /\ PostCalls = 1
        /\ BearerIs(last.histBefore.token)
        /\ iamToken = last.histBefore.token
        /\ iamTokenExpirationTime = last.expBefore)

\* C1's case: a publish strictly after the refresh and inside [T, T+E),
\* whose POST was rejected.
C1_Witness ==
    /\ Published
    /\ last.histBefore.done
    /\ last.histBefore.setAt < last.checkTime
    /\ last.checkTime < last.histBefore.setAt + last.histBefore.expiresIn
    /\ last.postResp = Response(401, "x")
    /\ TokenCalls = 0

\* C2: a publish whose validity check happens at a time now >= expiresAt
\* (now = expiresAt included), or while no token is held, performs exactly
\* one call to the metadata token URL, before the POST.
C2_RefreshAtOrAfterExpiry ==
    (/\ Published
     /\ (last.tokBefore = "" \/ last.checkTime >= last.expBefore))
    => (TokenCalls = 1 /\ TokenCallFirst)

\* C3: a token response with an empty access_token or a zero expires_in makes
\* the publish fail, nothing of it is cached, and the next publish that asks
\* for a token calls the metadata token URL again.
C3_MalformedTokenNotCached ==
    /\ (last.op = "Write" /\ Malformed(last.tokResp))
       => (/\ last.ret = "credentials"
           /\ PostCalls = 0
           /\ iamToken = last.tokBefore
           /\ iamTokenExpirationTime = last.expBefore
           /\ hist.rejected
           /\ hist.token = last.histBefore.token)
    /\ (Published /\ last.histBefore.rejected)
       => (TokenCalls = 1 /\ last.refresh # "none")

\* C3's case: the publish after a rejected token response fetched a token
\* again, and got one.
C3_Witness ==
    /\ Published
    /\ last.histBefore.rejected
    /\ TokenCalls = 1
    /\ last.refresh = "nil"
    /\ iamToken # ""

\* C4: whenever the cached token is not empty, the expiresAt stored with it
\* was strictly later than the time at which it was set, for every token
\* response the refresh accepts, a negative expires_in included.
C4_ExpiryInFutureWhenSet ==
    iamToken # "" => iamTokenExpirationTime > hist.setAt

\* C5: when the token cannot be obtained (transport failure, status outside
\* 2xx, unreadable or unparsable body, empty access_token or zero expires_in)
\* the publish returns that error and issues no POST.
C5_NoPostWithoutToken ==
    (/\ last.op = "Write"
     /\ last.tokResp.kind # "none"
     /\ TokenError(last.tokResp) # "nil")
    => (/\ last.ret = TokenError(last.tokResp)
        /\ last.refresh = last.ret
        /\ PostCalls = 0
        /\ Len(last.reqs) = 1)

\* C5's case: an expired token was held and the refresh failed at the
\* transport.
C5_Witness ==
    /\ last.op = "Write"
    /\ last.tokBefore # ""
    /\ last.tokResp.kind = "transport_error"
    /\ last.ret = "transport"
    /\ PostCalls = 0

\* C6: no publish issues a call to the metadata folder-id URL: after any
\* sequence of Connects and publishes the folder-id calls made so far are as
\* many as the Connect invocations (all of which returned: a Connect on a nil
\* client ends the process before it sends anything).
C6_NoFolderCallInWrite ==
    /\ last.op = "Write" => FolderCalls = 0
    /\ ~(panicked /\ last.op = "Connect") => nFolderCalls = nConnect

\* C6's case: a publish that follows a Connect and an earlier publish (the
\* one that fetched the token it sends).
C6_Witness ==
    /\ last.op = "Write"
    /\ nConnect >= 1
    /\ last.histBefore.done
    /\ last.refresh = "none"
    /\ PostCalls = 1

\* C7: once a Connect has stored a non-empty folder identifier, no later
\* Connect changes it, whether its metadata response is a different id, an
\* empty body or a failure.
C7_FolderIdNeverChanges ==
    (last.op = "Connect" /\ last.folderBefore # "") => folderID = last.folderBefore

\* The outcome that C8 as first stated gives a publish that reaches the POST:
\* the status decides whenever a response came.
C8_AsStated ==
    (last.op = "Write" /\ last.postResp.kind # "none")
    => IF last.postResp.kind = "transport_error"
       THEN last.ret = "transport" /\ last.errStatus = 0
       ELSE IF StatusOK(last.postResp.status)
       THEN last.ret = "nil"
       ELSE last.ret = "write_batch" /\ last.errStatus = last.postResp.status

\* C8: for a publish that reaches the POST, a response with a status in
\* [200,299] whose body is read to its end is a success, whatever the body; a
\* response with a status outside [200,299] is a failure that carries the
\* status code; a response whose body cannot be read is a failure that
\* carries the status code of that response, 2xx or not; no response at all
\* is a failure that carries no status code.
C8_DeliveryOutcome ==
    (last.op = "Write" /\ last.postResp.kind # "none")
    => IF last.postResp.kind = "transport_error"
       THEN last.ret = "transport" /\ last.errStatus = 0
       ELSE IF last.postResp.kind = "response" /\ StatusOK(last.postResp.status)
       THEN last.ret = "nil" /\ last.errStatus = 0
       ELSE last.ret = "write_batch" /\ last.errStatus = last.postResp.status

\* C8's case: the response had status 200 and its body could not be read.
C8_Witness ==
    /\ last.op = "Write"
    /\ last.postResp = ReadError(200, "")
    /\ last.ret = "write_batch"
    /\ last.errStatus = 200

\* C9: one publish issues at most one POST and at most one GET of the
\* metadata token URL and nothing else, and nothing after a request that
\* failed; one Connect issues at most one GET of the folder-id URL.
C9_NoRetry ==
    /\ last.op = "Write"
       => (/\ PostCalls <= 1
           /\ TokenCalls <= 1
           /\ Len(last.reqs) = PostCalls + TokenCalls
           /\ (last.refresh \notin {"none", "nil"} => PostCalls = 0))
    /\ last.op = "Connect"
       => (FolderCalls <= 1 /\ Len(last.reqs) = FolderCalls)

\* C9's case: a publish that fetched a token and whose POST was then
\* rejected.
C9_Witness ==
    /\ last.op = "Write"
    /\ last.refresh = "nil"
    /\ last.ret = "write_batch"
    /\ TokenCalls = 1
    /\ PostCalls = 1

\* The fields of the metrics in the host's order, each with its metric's name.
RECURSIVE FieldsOf(_)
FieldsOf(metrics) ==
    IF metrics = <<>> THEN <<>>
    ELSE [k \in 1 .. Len(Head(metrics).fields) |->
            [metric |-> Head(metrics).name, tags |-> Head(metrics).tags,
             field |-> Head(metrics).fields[k]]]
         \o FieldsOf(Tail(metrics))

IsCoercible(f) == ToFloat64(f.field.Value).ok
IsNotCoercible(f) == ~ToFloat64(f.field.Value).ok

\* C10: a Write of metrics with N coercible and M non-coercible fields builds
\* exactly N points, in the host's field order, each named
\* <metricName>_<fieldKey>, skips M fields, and the POST it issues carries
\* all N points.
C10_OnePointPerCoercibleField ==
    last.op = "Write"
    => LET coercible == SelectSeq(FieldsOf(last.metrics), IsCoercible)
           others == SelectSeq(FieldsOf(last.metrics), IsNotCoercible)
       IN /\ Len(last.points) = Len(coercible)
          /\ last.skipped = Len(others)
          /\ \A k \in 1 .. Len(coercible) :
                last.points[k].Name = coercible[k].metric \o "_" \o coercible[k].field.Key
          /\ \A k \in Posts(last.reqs) : last.reqs[k].body.metrics = last.points

\* C10's case: the only field of the first metric is skipped and the POST
\* carries the two points of the second metric, whose second field is skipped.
C10_Witness ==
    /\ last.op = "Write"
    /\ last.metrics = <<Disk, Cpu>>
    /\ last.skipped = 2
    /\ PostCalls = 1
    /\ Len(last.reqs[Len(last.reqs)].body.metrics) = 2

\* The tag sets of the metrics whose fields became the points of the last
\* Write, point by point.
PointTags == SelectSeq(FieldsOf(last.metrics), IsCoercible)

\* The labels keep every tag but "name" and "_name" as it was, and hold
\* nothing else but "_name".
OtherTagsKept(tags, labels) ==
    /\ DOMAIN labels \ {"_name"} = DOMAIN tags \ {"name", "_name"}
    /\ \A k \in DOMAIN tags \ {"name", "_name"} : labels[k] = tags[k]

\* Translating labels again gives labels, in whatever order the map is
\* ranged over.
TranslatedAgainSame(labels) ==
    \A o \in BOOLEAN : replaceReservedTagNames(labels, o) = labels

\* C11 as first stated: for every tag set that holds "name", with or without
\* "_name", the labels have no key "name", "_name" holds the value the tags
\* had under "name", every other tag is there with its value, and translating
\* the labels again leaves them as they are.
C11_AsStated ==
    last.op = "Write"
    => \A k \in 1 .. Len(last.points) :
         "name" \in DOMAIN PointTags[k].tags
         => (/\ "name" \notin DOMAIN last.points[k].Labels
             /\ "_name" \in DOMAIN last.points[k].Labels
             /\ last.points[k].Labels["_name"] = PointTags[k].tags["name"]
             /\ OtherTagsKept(PointTags[k].tags, last.points[k].Labels)
             /\ TranslatedAgainSame(last.points[k].Labels))

\* C11: for every tag set that holds "name", the labels have no key "name",
\* every tag other than "name" and "_name" is there with its value and
\* translating the labels again leaves them as they are; "_name" holds the
\* value the tags had under "name" when the tags have no key "_name", and
\* that value or the one the tags had under "_name" when they have both.
C11_ReservedTagRenamed ==
    last.op = "Write"
    => \A k \in 1 .. Len(last.points) :
         "name" \in DOMAIN PointTags[k].tags
         => (/\ "name" \notin DOMAIN last.points[k].Labels
             /\ "_name" \in DOMAIN last.points[k].Labels
             /\ IF "_name" \in DOMAIN PointTags[k].tags
                THEN last.points[k].Labels["_name"]
                       \in {PointTags[k].tags["name"], PointTags[k].tags["_name"]}
                ELSE last.points[k].Labels["_name"] = PointTags[k].tags["name"]
             /\ OtherTagsKept(PointTags[k].tags, last.points[k].Labels)
             /\ TranslatedAgainSame(last.points[k].Labels))

\* C11's case: one Write translated a tag set with "name" only and a tag set
\* with both keys, for which the value of "_name" was the one that stayed.
C11_Witness ==
    /\ last.op = "Write"
    /\ last.metrics = <<Unit, Cpu>>
    /\ Len(last.points) = 3
    /\ last.points[1].Labels["_name"] = "shadow"
    /\ last.points[2].Labels["_name"] = "core0"
    /\ "name" \notin DOMAIN last.points[2].Labels

\* The last operation was a Connect that returned.
ConnectReturned == last.op = "Connect" /\ last.ret # "panic"

\* C12: a Connect that got an empty folder id from the metadata service
\* returns an error, also when the fetch itself returned none, and so does a
\* Connect that leaves an empty folder id stored; a Connect returns no error
\* only when the fetch got a 2xx response with a body that is not empty.
C12_EmptyFolderIdIsError ==
    ConnectReturned
    => (/\ (last.folderResp.kind = "response" /\ last.folderResp.body = "")
            => last.ret # "nil"
        /\ folderID = "" => last.ret # "nil"
        /\ last.ret = "nil"
            => (/\ last.folderResp.kind = "response"
                /\ StatusOK(last.folderResp.status)
                /\ last.folderResp.body # ""
                /\ folderID = last.folderResp.body))

\* C12's case: the fetch returned no error (status 200) and the body was
\* empty.
C12_Witness ==
    /\ ConnectReturned
    /\ last.folderResp = Response(200, "")
    /\ last.ret = "empty_folder_id"
    /\ FolderCalls = 1

\* The settings that the last operation found, and whether an Init had
\* resolved them before (only Init sets the metadata URLs, and never to "").
TimeoutBefore == last.configBefore[1]
EndpointBefore == last.configBefore[2]
ServiceBefore == last.configBefore[3]
InitializedBefore == last.configBefore[4] # ""

\* C13 as first stated: Init sets the default for exactly the settings left
\* unset (timeout 0, endpoint "", service "") and leaves every other value as
\* configured; an Init of an initialized instance changes no setting.
C13_AsStated ==
    last.op = "Init"
    => (/\ Timeout = IF TimeoutBefore = 0 THEN defaultRequestTimeout ELSE TimeoutBefore
        /\ Endpoint = IF EndpointBefore = "" THEN defaultEndpoint ELSE EndpointBefore
        /\ Service = IF ServiceBefore = "" THEN defaultService ELSE ServiceBefore
        /\ InitializedBefore => config = last.configBefore)

\* C13: Init sets the default for the settings left unset (timeout 0,
\* endpoint "", service "") and for a timeout that is negative, leaves every
\* other configured value as it is, and an Init of an initialized instance
\* changes no setting.
C13_InitDefaults ==
    last.op = "Init"
    => (/\ Timeout = IF TimeoutBefore <= 0 THEN defaultRequestTimeout ELSE TimeoutBefore
        /\ Endpoint = IF EndpointBefore = "" THEN defaultEndpoint ELSE EndpointBefore
        /\ Service = IF ServiceBefore = "" THEN defaultService ELSE ServiceBefore
        /\ metadataTokenURL = defaultMetadataTokenURL
        /\ metadataFolderURL = defaultMetadataFolderURL
        /\ InitializedBefore => config = last.configBefore)

\* C13's case: an Init of an initialized instance whose timeout and service
\* were configured and whose endpoint was not.
C13_Witness ==
    /\ last.op = "Init"
    /\ InitializedBefore
    /\ Timeout = 5
    /\ Service = "svc"
    /\ Endpoint = defaultEndpoint
    /\ config = last.configBefore

\* C14: after a publish that refreshed the credential, the cached expiresAt
\* is the instant of that publish's validity check plus the expires_in of
\* the token response, however long the metadata call took.
C14_ExpiryFromCheckInstant ==
    (Published /\ last.refresh = "nil")
    => iamTokenExpirationTime = TimeAdd(last.checkTime, last.tokResp.body.expires_in)

\* The credential is as the last operation found it.
CredentialUnchanged ==
    iamToken = last.tokBefore /\ iamTokenExpirationTime = last.expBefore

\* C15: only a refresh that succeeded changes the cached credential, and it
\* replaces the token and expiresAt together, by the token of the response
\* and by the time of its arrival plus the expires_in of the response,
\* whatever the POST then returns; Init, Connect, Close, a Write that does
\* not refresh (whatever its POST returns) and a Write whose refresh fails,
\* with or without a credential held, leave both as they were.
C15_OnlyRefreshMutatesCredential ==
    /\ last.op \in {"Init", "Connect", "Close"} => CredentialUnchanged
    /\ (last.op = "Write" /\ last.refresh # "nil") => CredentialUnchanged
    /\ (last.op = "Write" /\ last.refresh = "nil")
       => (/\ iamToken = last.tokResp.body.access_token
           /\ iamTokenExpirationTime = last.setTime + last.tokResp.body.expires_in)

\* C15's case: a refresh replaced the credential that was held, token and
\* expiresAt, and the POST that followed was rejected.
C15_Witness ==
    /\ last.op = "Write"
    /\ last.refresh = "nil"
    /\ last.tokBefore = "t1"
    /\ iamToken = "t2"
    /\ iamTokenExpirationTime # last.expBefore
    /\ last.postResp = Response(401, "x")

\* C16: the body of every POST has a member "metrics" that is an array of
\* the points of that Write, the empty array when there are none (no
\* metrics, or no field that is a number), never null; and a Write with no
\* points that fetched or held a token still issues its one POST.
C16_MetricsIsArray ==
    last.op = "Write"
    => (/\ \A k \in Posts(last.reqs) :
              /\ last.reqs[k].hasBody
              /\ ~last.reqs[k].body.metricsNull
              /\ last.reqs[k].body.metrics = last.points
        /\ (last.points = <<>> /\ last.checked /\ last.refresh \in {"none", "nil"})
           => PostCalls = 1)

\* C17: every POST carries a bearer token that is not empty, is the token
\* the cache holds and was not past the expiresAt recorded with it when that
\* publish made its validity check; its folderId is the stored folder
\* identifier and its service the configured service.
C17_PostCarriesCurrentCredential ==
    last.op = "Write"
    => \A k \in Posts(last.reqs) :
         /\ last.reqs[k].bearer # ""
         /\ last.reqs[k].bearer = iamToken
         /\ ~Before(iamTokenExpirationTime, last.checkTime)
         /\ last.reqs[k].folderId = folderID
         /\ last.reqs[k].service = Service

\* The last operation was a Write whose POST failed: no response, a status
\* outside 2xx or a body that could not be read.
PostRejected ==
    last.op = "Write" /\ PostCalls = 1 /\ last.ret \in {"transport", "write_batch"}

\* C18: a POST that failed (any status outside 2xx, 401 included, or no
\* response) leaves the credential in the cache, the token it carried and
\* the expiresAt; and the next publish that gets to the validity check, if
\* its check falls before that expiresAt, issues no call to the metadata
\* token URL and sends the same token in its one POST.
C18_FailedPostKeepsCredential ==
    /\ PostRejected
       => (/\ hist.postFailed
           /\ iamToken # ""
           /\ BearerIs(iamToken)
           /\ hist.token = iamToken
           /\ last.refresh = "none" => CredentialUnchanged)
    /\ (/\ Published
        /\ last.histBefore.postFailed
        /\ Before(last.checkTime, last.expBefore))
       => (/\ TokenCalls = 0
           /\ last.refresh = "none"
           /\ PostCalls = 1
           /\ last.tokBefore # ""
           /\ last.tokBefore = last.histBefore.token
           /\ BearerIs(last.tokBefore)
           /\ CredentialUnchanged)

\* C18's case: the POST of the publish before was rejected with 401 or got
\* no response, time has passed, and this publish, checked before expiresAt,
\* sent the same token without asking for a new one; its POST failed again.
C18_Witness ==
    /\ Published
    /\ last.histBefore.postFailed
    /\ last.histBefore.setAt < last.checkTime
    /\ Before(last.checkTime, last.expBefore)
    /\ TokenCalls = 0
    /\ PostCalls = 1
    /\ BearerIs(last.histBefore.token)
    /\ last.postResp \in {Response(401, "x"), TransportError("")}

\* C19: no POST carries an empty folderId, whatever the order of Init,
\* Connect and Write, a Write before any Connect and a Write after a Connect
\* that returned an error included.
C19_NoPostWithEmptyFolderId ==
    last.op = "Write" => \A k \in Posts(last.reqs) : last.reqs[k].folderId # ""

====
